---------------------------- MODULE Spec2Model ----------------------------
(***************************************************************************)
(* A model of pynapple/process/tuning_curves.py:                           *)
(*   PoissonIRLS                     (lines 495-533)                       *)
(*   compute_1d_poisson_glm          (lines 536-620)                       *)
(*   compute_discrete_tuning_curves  (lines 20-74)                         *)
(*   compute_1d_tuning_curves        (lines 77-132)                        *)
(*   compute_1d_tuning_curves_continous (lines 356-412)                    *)
(*                                                                         *)
(* Timestamps, bin sizes and window sizes are integers (one canonical time *)
(* unit).  Averages and bin centres are exact rationals <<num, den>>.      *)
(* Floating-point linear algebra that has no finite exact form (exp, the   *)
(* matrix inverse) is kept symbolic: a coefficient vector is the term that *)
(* records how it was computed, and the two data-dependent outcomes of a   *)
(* solver step (does the inversion fail, what does tol compare to) are     *)
(* drawn once per distinct computation and remembered, so that the same    *)
(* computation always has the same outcome.                                *)
(***************************************************************************)
EXTENDS Integers, Sequences, FiniteSets, TLC

VARIABLES
    irls,        \* the activation record of PoissonIRLS
    fpInv,       \* remembered outcome of np.linalg.inv(X.T * W @ X) per (X, W)
    fpIter,      \* remembered outcome of one loop iteration per new estimate
    tolHist,     \* history: the tol values computed by the running call
    pc,          \* position of compute_1d_poisson_glm
    args,        \* its arguments: group, feature, binsize, windowsize, ep,
                 \* niter, tolerance (binsize and windowsize as returned by
                 \* format_timestamps)
    count,       \* newgroup.count(binsize): unit -> one count per bin
    tidx,        \* list of bin-centre arrays, one per epoch done
    dfeat,       \* list of per-epoch bin averages, then the Tsd built of it
    nt,          \* number of lags
    X,           \* the design matrix
    regressors,  \* list of fitted coefficient vectors, in fitting order
    result,      \* what the call returned: regressors, offset, prediction
    err,         \* the exception that ended the call, "" if none
    dtc,         \* the activation record of compute_discrete_tuning_curves
    tcc,         \* the activation record of compute_1d_tuning_curves_continous
    tc1          \* the activation record of compute_1d_tuning_curves

irlsVars == <<irls, fpInv, fpIter, tolHist>>
glmVars == <<pc, args, count, tidx, dfeat, nt, X, regressors, result, err>>
vars == <<irlsVars, glmVars, dtc, tcc, tc1>>

(***************************************************************************)
(* Bounds of the model.                                                    *)
(***************************************************************************)
MaxIter == 3          \* niter ranges over 0..MaxIter
MaxT == 3             \* timestamps and epoch bounds range over 0..MaxT
MaxWindow == 3        \* windowsize ranges over binsize..MaxWindow

----------------------------------------------------------------------------
(***************************************************************************)
(* Exact rationals <<num, den>>, den > 0, in lowest terms.                 *)
(***************************************************************************)
RECURSIVE Gcd(_, _)
Gcd(a, b) == IF b = 0 THEN a ELSE Gcd(b, a % b)

Abs(a) == IF a < 0 THEN -a ELSE a

Rat(num, den) ==
    LET g == Gcd(Abs(num), den)
    IN  <<num \div g, den \div g>>

Zero == Rat(0, 1)
One == Rat(1, 1)

----------------------------------------------------------------------------
(***************************************************************************)
(* Floating-point scalars as far as the comparison of line 531 reads them: *)
(* a finite value, +inf or NaN.  tol is a sum of absolute values, so it is *)
(* never negative.                                                         *)
(***************************************************************************)
Fin(v) == [kind |-> "fin", v |-> v]
Inf == [kind |-> "inf", v |-> 0]
NaN == [kind |-> "nan", v |-> 0]
Singular == [kind |-> "singular", v |-> 0]

TolValues == {Fin(0), Fin(1), Fin(2), Inf, NaN}
IterOutcomes == TolValues \cup {Singular}
Tolerances == {Fin(1), Fin(2)}

\* a <= b where the code has a < b
FloatLe(a, b) ==
    IF a.kind = "nan" \/ b.kind = "nan" THEN FALSE
    ELSE IF b.kind = "inf" THEN TRUE
    ELSE IF a.kind = "inf" THEN FALSE
    ELSE a.v <= b.v

\* IEEE-754 a < b: false whenever an operand is NaN
FloatLt(a, b) ==
    IF a.kind = "nan" \/ b.kind = "nan" THEN FALSE
    ELSE IF a.kind = "inf" THEN FALSE
    ELSE IF b.kind = "inf" THEN TRUE
    ELSE a.v < b.v

----------------------------------------------------------------------------
(***************************************************************************)
(* PoissonIRLS                                                             *)
(***************************************************************************)
Rows(M) == Len(M)
Cols(M) == IF M = <<>> THEN 0 ELSE Len(M[1])

\* np.ones(n)
Ones(n) == [i \in 1..n |-> 1]

\* B = (XtWX)^-1 XtWy, the weighted least-squares start (lines 520-522)
WLS(M, W, y) == [op |-> "wls", X |-> M, W |-> W, y |-> y, from |-> <<>>]

\* B + delta with L = exp(X.B), Z = L * X, delta = (ZtWZ)^-1 ZtWy
\* (lines 526-529); "from" is the estimate that L and Z were computed from
Step(B, M, W, y) ==
    [op |-> "step", X |-> M, W |-> W, y |-> y, from |-> <<B>>]

\* number of updates B := B + delta that produced the estimate B
RECURSIVE NumUpdates(_)
NumUpdates(B) == IF B.from = <<>> THEN 0 ELSE 1 + NumUpdates(B.from[1])

\* a loop that always runs its body once (do ... while)
InRangeDoWhile(it, n) == it < n \/ it = 0

\* for _ in range(niter): the body runs while it < niter
InRange(it, n) == it < n

\* the loop re-weights each pass, as a textbook IRLS does
LoopWeightsRelinked(W, n) == [i \in 1..n |-> 2]

\* the weights a pass of the loop works with: what line 519 set them to,
\* since no statement of the loop assigns W
LoopWeights(W, n) == W

Idle == [pc |-> "idle"]
DtcIdle == [pc |-> "idle"]
TcIdle == [pc |-> "idle"]

\* the frame of a call PoissonIRLS(X, y, niter, tolerance)
Call(M, y, niter, tolerance) ==
    [pc |-> "entry", X |-> M, y |-> y, niter |-> niter,
     tolerance |-> tolerance]

\* lines 516-522; B_ holds the previous estimate once line 525 has set it
IRLS_Entry ==
    /\ irls.pc = "entry"
    /\ LET n == Rows(irls.X)
           W == Ones(n)
           key == [X |-> irls.X, W |-> W]
       IN  \E fails \in (IF key \in DOMAIN fpInv THEN {fpInv[key]} ELSE BOOLEAN) :
             /\ fpInv' = [q \in DOMAIN fpInv \cup {key} |->
                            IF q = key THEN fails ELSE fpInv[q]]
             /\ irls' = IF fails
                        THEN [pc |-> "raised", X |-> irls.X, y |-> irls.y,
                              niter |-> irls.niter, tolerance |-> irls.tolerance,
                              W |-> W, err |-> "LinAlgError"]
                        ELSE [pc |-> "loop", X |-> irls.X, y |-> irls.y,
                              niter |-> irls.niter, tolerance |-> irls.tolerance,
                              W |-> W, B |-> WLS(irls.X, W, irls.y),
                              B_ |-> <<>>, it |-> 0]
    /\ tolHist' = <<>>
    /\ UNCHANGED <<fpIter, glmVars, dtc, tcc, tc1>>

\* one pass of the loop body, lines 525-532
IRLS_Iterate ==
    /\ irls.pc = "loop"
    /\ InRange(irls.it, irls.niter)
    /\ LET W == LoopWeights(irls.W, Rows(irls.X))
           B_ == <<irls.B>>
           B == Step(irls.B, irls.X, W, irls.y)
       IN  \E out \in (IF B \in DOMAIN fpIter THEN {fpIter[B]} ELSE IterOutcomes) :
             /\ fpIter' = [q \in DOMAIN fpIter \cup {B} |->
                             IF q = B THEN out ELSE fpIter[q]]
             /\ IF out = Singular
                THEN /\ irls' = [pc |-> "raised", X |-> irls.X, y |-> irls.y,
                                 niter |-> irls.niter,
                                 tolerance |-> irls.tolerance,
                                 W |-> W, err |-> "LinAlgError"]
                     /\ UNCHANGED tolHist
                ELSE /\ tolHist' = Append(tolHist, out)
                     /\ irls' = IF FloatLt(out, irls.tolerance)
                                THEN [pc |-> "returned", X |-> irls.X,
                                      y |-> irls.y, niter |-> irls.niter,
                                      tolerance |-> irls.tolerance,
                                      W |-> W, B_ |-> B_, it |-> irls.it + 1,
                                      ret |-> B]
                                ELSE [pc |-> "loop", X |-> irls.X, y |-> irls.y,
                                      niter |-> irls.niter,
                                      tolerance |-> irls.tolerance,
                                      W |-> W, B |-> B, B_ |-> B_,
                                      it |-> irls.it + 1]
    /\ UNCHANGED <<fpInv, glmVars, dtc, tcc, tc1>>

\* the loop is exhausted: line 533
IRLS_Exhausted ==
    /\ irls.pc = "loop"
    /\ ~InRange(irls.it, irls.niter)
    /\ irls' = [pc |-> "returned", X |-> irls.X, y |-> irls.y,
                niter |-> irls.niter, tolerance |-> irls.tolerance,
                W |-> irls.W, B_ |-> irls.B_, it |-> irls.it, ret |-> irls.B]
    /\ UNCHANGED <<fpInv, fpIter, tolHist, glmVars, dtc, tcc, tc1>>

----------------------------------------------------------------------------
(***************************************************************************)
(* compute_1d_poisson_glm                                                  *)
(***************************************************************************)
\* np.arange(start, stop, step) for step > 0
Arange(start, stop, step) ==
    [k \in 1..(IF stop > start THEN (stop - start + step - 1) \div step ELSE 0)
       |-> start + (k - 1) * step]

\* np.digitize(x, bins) for increasing bins: i with bins[i-1] <= x < bins[i]
\* (0-based), 0 below bins[0] and len(bins) from bins[-1] on
Digitize(x, bins) == Cardinality({k \in 1..Len(bins) : bins[k] <= x})

RECURSIVE SortedSeq(_)
SortedSeq(S) ==
    IF S = {} THEN <<>>
    ELSE LET m == CHOOSE a \in S : \A b \in S : a <= b
         IN  <<m>> \o SortedSeq(S \ {m})

RECURSIVE SumOver(_, _)
SumOver(f, T) ==
    IF T = {} THEN 0
    ELSE LET t == CHOOSE a \in T : TRUE
         IN  f[t] + SumOver(f, T \ {t})

\* feature.groupby(idx).mean(): one average per distinct value of idx, in
\* increasing order of that value
GroupbyMean(f, idx) ==
    LET keys == SortedSeq({idx[t] : t \in DOMAIN f})
        members(k) == {t \in DOMAIN f : idx[t] = k}
    IN  [p \in 1..Len(keys) |->
           Rat(SumOver(f, members(keys[p])), Cardinality(members(keys[p])))]

\* bins[0:-1] + np.diff(bins) / 2
Centres(bins) ==
    [k \in 1..(Len(bins) - 1) |-> Rat(2 * bins[k] + (bins[k + 1] - bins[k]), 2)]

\* np.hstack of a list of 1-d arrays
RECURSIVE Hstack(_)
Hstack(parts) ==
    IF parts = <<>> THEN <<>> ELSE Head(parts) \o Hstack(Tail(parts))

\* a[-k:] for k >= 0: the last k elements; all of a when it is shorter, and
\* when k = 0
LastK(a, k) ==
    IF k = 0 \/ Len(a) <= k THEN a ELSE SubSeq(a, Len(a) - k + 1, Len(a))

\* a[:-k] for k >= 0: a without its last k elements; empty when k = 0
DropLastK(a, k) ==
    IF k = 0 \/ Len(a) <= k THEN <<>> ELSE SubSeq(a, 1, Len(a) - k)

\* scipy.linalg.hankel(c, r): H[i, j] = c[i + j] while i + j < len(c), and
\* r[i + j - len(c) + 1] after that (0-based); r[0] is not read
Hankel(c, r) ==
    [i \in 1..Len(c) |-> [j \in 1..Len(r) |->
        (c \o (IF r = <<>> THEN <<>> ELSE Tail(r)))[i + j - 1]]]

\* nt = np.abs(windowsize // binsize).astype("int") + 1
LagCount(windowsize, b) == Abs(windowsize \div b) + 1

\* the padding put after the feature instead of before it
PaddedRight(d, n) == d \o [k \in 1..(n - 1) |-> Zero]

\* np.hstack((np.zeros(nt - 1), dfeat.values))
Padded(d, n) == [k \in 1..(n - 1) |-> Zero] \o d

\* lines 595-598: the Hankel matrix with a column of ones before it
DesignMatrix(d, n) ==
    LET H == Hankel(DropLastK(Padded(d, n), n - 1), LastK(d, n))
    IN  [i \in 1..Len(d) |-> <<One>> \o H[i]]

\* the labels counted from 0 upwards
LagLabelsForward(n, b) == [k \in 1..n |-> (k - 1) * b]

\* np.arange(-nt + 1, 1) * binsize
LagLabels(n, b) == [k \in 1..n |-> (k - n) * b]

\* the number of bins of epoch e: len(bins) - 1
NumBins(e, b) == Len(Arange(e.start, e.end + b, b)) - 1

RECURSIVE TotalBins(_, _)
TotalBins(ep, b) ==
    IF ep = <<>> THEN 0 ELSE NumBins(Head(ep), b) + TotalBins(Tail(ep), b)

\* TsGroup.count(binsize) of one unit on one epoch: the events of each bin
\* of the grid start, start + binsize, ..., the last bin closed on the right
CountEpoch(ts, e, b) ==
    LET bins == Arange(e.start, e.end + b, b)
        nb == Len(bins) - 1
        inbin(t, k) ==
            /\ e.start <= t /\ t <= e.end
            /\ bins[k] <= t
            /\ (t < bins[k + 1] \/ (k = nb /\ t = bins[k + 1]))
    IN  [k \in 1..nb |-> Cardinality({t \in ts : inbin(t, k)})]

RECURSIVE CountUnit(_, _, _)
CountUnit(ts, ep, b) ==
    IF ep = <<>> THEN <<>>
    ELSE CountEpoch(ts, Head(ep), b) \o CountUnit(ts, Tail(ep), b)

\* position of unit n in the key list
RECURSIVE PosOf(_, _)
PosOf(n, keys) ==
    IF keys = <<>> THEN 0
    ELSE IF Head(keys) = n THEN 1
    ELSE 1 + PosOf(n, Tail(keys))

Keys == args.group.keys

\* coefficient j (0-based) of the fitted vector b
Coef(b, j) == [coef |-> j, of |-> b]

\* for i, n in enumerate(group.keys()): the unit of the pass after `done`
\* passes
FitUnit(keys, done) == keys[done + 1]

\* the solver scales the caller's matrix in place
AfterSolveScaled(M) ==
    [i \in 1..Len(M) |-> [j \in 1..Len(M[i]) |-> Rat(2 * M[i][j][1], M[i][j][2])]]

\* the caller's X after a call of the solver: the solver works on its own
\* copy (X.astype, line 517) and assigns no element of it
AfterSolve(M) == M

\* the loop goes on to the next unit after a failed fit
AfterFailedFitSkip(sofar, e) == [pc |-> "fit", err |-> "", regressors |-> sofar]

\* an exception of the solver is not caught: the call ends with it
AfterFailedFit(sofar, e) == [pc |-> "raised", err |-> e, regressors |-> <<>>]

\* lines 571-580
GLM_Start ==
    /\ pc = "start"
    /\ IF ~args.group.isTsGroup
       THEN /\ pc' = "raised"
            /\ err' = "RuntimeError"
            /\ UNCHANGED count
       ELSE /\ pc' = "downsample"
            /\ count' = [n \in {Keys[p] : p \in 1..Len(Keys)} |->
                           CountUnit(args.group.ts[n], args.ep, args.binsize)]
            /\ UNCHANGED err
    /\ UNCHANGED <<args, tidx, dfeat, nt, X, regressors, result, irlsVars, dtc, tcc, tc1>>

\* one pass of the loop of lines 585-590
GLM_Downsample ==
    /\ pc = "downsample"
    /\ Len(tidx) < Len(args.ep)
    /\ LET e == args.ep[Len(tidx) + 1]
           bins == Arange(e.start, e.end + args.binsize, args.binsize)
           idx == [t \in DOMAIN args.feature |-> Digitize(t, bins) - 1]
           tmp == GroupbyMean(args.feature, idx)
       IN  /\ tidx' = Append(tidx, Centres(bins))
           /\ dfeat' = Append(dfeat, tmp)
    /\ UNCHANGED <<pc, args, count, nt, X, regressors, result, err, irlsVars, dtc, tcc, tc1>>

\* line 591: the container refuses data and index of different lengths
\* (which exception it raises depends on the container: "ShapeError" stands
\* for it)
GLM_MakeTsd ==
    /\ pc = "downsample"
    /\ Len(tidx) = Len(args.ep)
    /\ IF Len(Hstack(tidx)) # Len(Hstack(dfeat))
       THEN /\ pc' = "raised"
            /\ err' = "ShapeError"
            /\ UNCHANGED dfeat
       ELSE /\ pc' = "hankel"
            /\ dfeat' = [t |-> Hstack(tidx), d |-> Hstack(dfeat)]
            /\ UNCHANGED err
    /\ UNCHANGED <<args, count, tidx, nt, X, regressors, result, irlsVars, dtc, tcc, tc1>>

\* lines 594-598
GLM_Hankel ==
    /\ pc = "hankel"
    /\ nt' = LagCount(args.windowsize, args.binsize)
    /\ X' = DesignMatrix(dfeat.d, nt')
    /\ pc' = "fit"
    /\ UNCHANGED <<args, count, tidx, dfeat, regressors, result, err, irlsVars, dtc, tcc, tc1>>

\* lines 602-604: the call of the solver for the next unit
GLM_Fit ==
    /\ pc = "fit"
    /\ Len(regressors) < Len(Keys)
    /\ LET n == FitUnit(Keys, Len(regressors))
       IN  irls' = Call(X, count[n], args.niter, args.tolerance)
    /\ pc' = "fitting"
    /\ UNCHANGED <<args, count, tidx, dfeat, nt, X, regressors, result, err,
                   fpInv, fpIter, tolHist, dtc, tcc, tc1>>

\* line 605: the solver returned b
GLM_Append ==
    /\ pc = "fitting"
    /\ irls.pc = "returned"
    /\ regressors' = Append(regressors, irls.ret)
    /\ X' = AfterSolve(X)
    /\ irls' = Idle
    /\ pc' = "fit"
    /\ UNCHANGED <<args, count, tidx, dfeat, nt, result, err,
                   fpInv, fpIter, tolHist, dtc, tcc, tc1>>

\* line 604: the solver raised
GLM_Propagate ==
    /\ pc = "fitting"
    /\ irls.pc = "raised"
    /\ LET after == AfterFailedFit(regressors, irls.err)
       IN  /\ pc' = after.pc
           /\ err' = after.err
           /\ regressors' = after.regressors
    /\ irls' = Idle
    /\ UNCHANGED <<args, count, tidx, dfeat, nt, X, result,
                   fpInv, fpIter, tolHist, dtc, tcc, tc1>>

\* lines 607-620: the coefficient vectors become the columns of a table
\* whose rows are labelled with the lags; the container refuses a table
\* whose row count differs from the number of labels
GLM_Return ==
    /\ pc = "fit"
    /\ Len(regressors) = Len(Keys)
    /\ LET d == Cols(X)
           units == 1..Len(Keys)
           offset == [p \in units |-> Coef(regressors[p], 0)]
           table == [k \in 1..(d - 1) |->
                       [p \in units |-> Coef(regressors[p], k)]]
           labels == LagLabels(nt, args.binsize)
       IN  IF Len(table) # Len(labels)
           THEN /\ pc' = "raised"
                /\ err' = "ShapeError"
                /\ UNCHANGED result
           ELSE /\ pc' = "returned"
                /\ result' =
                     [regressors |-> [t |-> labels, columns |-> Keys,
                                      d |-> table],
                      offset |-> [index |-> Keys, data |-> offset],
                      prediction |->
                        [t |-> dfeat.t,
                         d |-> [i \in 1..Rows(X) |-> [p \in units |->
                                  [op |-> "exp*binsize",
                                   x |-> Tail(X[i]),
                                   w |-> [k \in 1..Len(table) |-> table[k][p]],
                                   offset |-> offset[p],
                                   binsize |-> args.binsize]]]]]
                /\ UNCHANGED err
    /\ UNCHANGED <<args, count, tidx, dfeat, nt, X, regressors, irlsVars, dtc, tcc, tc1>>

GlmIdle ==
    /\ pc = "idle"
    /\ args = <<>>
    /\ count = <<>>
    /\ tidx = <<>>
    /\ dfeat = <<>>
    /\ nt = 0
    /\ X = <<>>
    /\ regressors = <<>>
    /\ result = <<>>
    /\ err = ""

(***************************************************************************)
(* The inputs of compute_1d_poisson_glm.  An IntervalSet holds sorted,     *)
(* disjoint epochs with start < end.                                       *)
(***************************************************************************)
Times == 0..MaxT
Epochs == {q \in [start : Times, end : Times] : q.start < q.end}
EpochSets ==
    {<<e>> : e \in Epochs}
    \cup {<<p[1], p[2]>> : p \in {q \in Epochs \X Epochs : q[1].end < q[2].start}}

Features(values) == UNION {[T -> values] : T \in (SUBSET Times) \ {{}}}

Sizes == {s \in [binsize : {1, 2}, windowsize : 1..MaxWindow] :
              s.windowsize >= s.binsize}

\* one silent unit: the inputs vary the feature, the epochs and the sizes
DesignInputs ==
    {[group |-> [isTsGroup |-> TRUE, keys |-> <<1>>, ts |-> [n \in {1} |-> {}]],
      feature |-> f, binsize |-> s.binsize, windowsize |-> s.windowsize,
      ep |-> ep, niter |-> 1, tolerance |-> Fin(1)] :
        f \in Features({0, 1}), s \in Sizes, ep \in EpochSets}

Groups ==
    {[isTsGroup |-> TRUE, keys |-> k, ts |-> ts] :
        k \in {<<1>>, <<1, 2>>, <<2, 1>>}, ts \in [{1, 2} -> {{}, {0}}]}
    \cup {[isTsGroup |-> FALSE, keys |-> <<1>>, ts |-> [n \in {1, 2} |-> {}]]}

\* one epoch with a feature sample in every bin: the inputs vary the group,
\* the window and the iteration bound
FitInputs ==
    {[group |-> g, feature |-> f, binsize |-> 1, windowsize |-> w,
      ep |-> <<[start |-> 0, end |-> MaxT]>>, niter |-> niter,
      tolerance |-> Fin(1)] :
        g \in Groups,
        f \in {[t \in 0..(MaxT - 1) |-> t + 1], [t \in 0..(MaxT - 1) |-> 0]},
        w \in 1..2, niter \in {0, 1, 2}}

InitGLM ==
    /\ args \in DesignInputs \cup FitInputs
    /\ pc = "start"
    /\ count = <<>>
    /\ tidx = <<>>
    /\ dfeat = <<>>
    /\ nt = 0
    /\ X = <<>>
    /\ regressors = <<>>
    /\ result = <<>>
    /\ err = ""
    /\ irls = Idle
    /\ fpInv = << >>
    /\ fpIter = << >>
    /\ tolHist = <<>>
    /\ dtc = DtcIdle
    /\ tcc = TcIdle
    /\ tc1 = TcIdle

NextGLM ==
    \/ GLM_Start
    \/ GLM_Downsample
    \/ GLM_MakeTsd
    \/ GLM_Hankel
    \/ GLM_Fit
    \/ GLM_Append
    \/ GLM_Propagate
    \/ GLM_Return
    \/ IRLS_Entry
    \/ IRLS_Iterate
    \/ IRLS_Exhausted

SpecGLM == InitGLM /\ [][NextGLM]_vars

----------------------------------------------------------------------------
(***************************************************************************)
(* Direct calls of PoissonIRLS.                                            *)
(***************************************************************************)
SolverMatrices ==
    { <<<<One>>>>,
      <<<<One, Zero>>, <<One, One>>>>,
      <<<<One, One>>, <<One, One>>>>,
      <<<<One, Zero>>, <<One, One>>, <<One, Rat(1, 2)>>>> }

SolverTargets(M) == [1..Rows(M) -> 0..1]

InitIRLS ==
    /\ \E M \in SolverMatrices, niter \in 0..MaxIter, tolerance \in Tolerances :
         \E y \in SolverTargets(M) :
           irls = Call(M, y, niter, tolerance)
    /\ fpInv = << >>
    /\ fpIter = << >>
    /\ tolHist = <<>>
    /\ GlmIdle
    /\ dtc = DtcIdle
    /\ tcc = TcIdle
    /\ tc1 = TcIdle

NextIRLS == IRLS_Entry \/ IRLS_Iterate \/ IRLS_Exhausted

SpecIRLS == InitIRLS /\ [][NextIRLS]_vars

----------------------------------------------------------------------------
(***************************************************************************)
(* compute_discrete_tuning_curves                                          *)
(***************************************************************************)
\* len(ts.restrict(ep)): the events inside one of the epochs
RestrictLen(ts, ep) ==
    Cardinality({t \in ts : \E i \in 1..Len(ep) :
                                ep[i].start <= t /\ t <= ep[i].end})

\* ep.tot_length("s")
RECURSIVE TotLength(_)
TotLength(ep) ==
    IF ep = <<>> THEN 0
    ELSE (Head(ep).end - Head(ep).start) + TotLength(Tail(ep))

\* lines 58-63
DTC_Start ==
    /\ dtc.pc = "start"
    /\ dtc' = IF ~dtc.group.isTsGroup
              THEN [dtc EXCEPT !.pc = "raised", !.err = "RuntimeError"]
              ELSE [dtc EXCEPT
                      !.pc = "loop",
                      !.tuning_curves =
                          [k \in {dtc.dict_ep[p].key : p \in 1..Len(dtc.dict_ep)}
                             |-> [n \in {dtc.group.keys[q] :
                                           q \in 1..Len(dtc.group.keys)}
                                    |-> Zero]]]
    /\ UNCHANGED <<irlsVars, glmVars, tcc, tc1>>

\* one pass of the loop of lines 65-72, for the next key of dict_ep
DTC_Key ==
    /\ dtc.pc = "loop"
    /\ dtc.done < Len(dtc.dict_ep)
    /\ LET item == dtc.dict_ep[dtc.done + 1]
           k == item.key
           units == dtc.group.keys
       IN  dtc' =
             IF ~item.value.isIntervalSet
             THEN [dtc EXCEPT !.pc = "raised", !.err = "RuntimeError"]
             ELSE [dtc EXCEPT
                     !.done = dtc.done + 1,
                     !.restricted =
                         dtc.restricted \o [q \in 1..Len(units) |-> <<k, units[q]>>],
                     !.tuning_curves[k] =
                         [n \in DOMAIN dtc.tuning_curves[k] |->
                            Rat(RestrictLen(dtc.group.ts[n], item.value.ep),
                                TotLength(item.value.ep))]]
    /\ UNCHANGED <<irlsVars, glmVars, tcc, tc1>>

\* line 74
DTC_Return ==
    /\ dtc.pc = "loop"
    /\ dtc.done = Len(dtc.dict_ep)
    /\ dtc' = [dtc EXCEPT !.pc = "returned"]
    /\ UNCHANGED <<irlsVars, glmVars, tcc, tc1>>

DictValues ==
    {[isIntervalSet |-> TRUE, ep |-> <<[start |-> 0, end |-> 1]>>],
     [isIntervalSet |-> TRUE,
      ep |-> <<[start |-> 0, end |-> 1], [start |-> 2, end |-> 3]>>],
     [isIntervalSet |-> FALSE, ep |-> <<>>]}

DictOrders == {<<"a">>, <<"a", "b">>, <<"b", "a">>, <<"b", "a", "c">>}

Dicts ==
    UNION {{[p \in 1..Len(o) |-> [key |-> o[p], value |-> v[p]]] :
               v \in [1..Len(o) -> DictValues]} : o \in DictOrders}

DtcGroups ==
    {[isTsGroup |-> TRUE, keys |-> k, ts |-> ts] :
        k \in {<<1>>, <<1, 2>>}, ts \in [{1, 2} -> {{}, {0}, {1, 2}}]}
    \cup {[isTsGroup |-> FALSE, keys |-> <<1>>, ts |-> [n \in {1, 2} |-> {}]]}

InitDTC ==
    /\ \E g \in DtcGroups, d \in Dicts :
         dtc = [pc |-> "start", group |-> g, dict_ep |-> d, done |-> 0,
                restricted |-> <<>>, tuning_curves |-> <<>>, err |-> ""]
    /\ irls = Idle
    /\ fpInv = << >>
    /\ fpIter = << >>
    /\ tolHist = <<>>
    /\ GlmIdle
    /\ tcc = TcIdle
    /\ tc1 = TcIdle

NextDTC == DTC_Start \/ DTC_Key \/ DTC_Return

SpecDTC == InitDTC /\ [][NextDTC]_vars

----------------------------------------------------------------------------
(***************************************************************************)
(* compute_1d_tuning_curves and compute_1d_tuning_curves_continous.        *)
(* Feature values and bounds are integers, bin edges exact rationals.  A   *)
(* feature is a function from its timestamps to its values; the samples of *)
(* tsdframe are a function from timestamps to the value of its one column. *)
(***************************************************************************)
RatLe(a, b) == a[1] * b[2] <= b[1] * a[2]
RatLt(a, b) == a[1] * b[2] < b[1] * a[2]

\* np.linspace(start, stop, num), num >= 2: start + k * (stop - start) /
\* (num - 1); the last element is stop itself
Linspace(start, stop, num) ==
    [k \in 1..num |-> Rat(start * (num - 1) + (k - 1) * (stop - start), num - 1)]

\* bins[0:-1] + np.diff(bins) / 2 on rational edges
BinCentres(bins) ==
    [k \in 1..(Len(bins) - 1) |->
       Rat(2 * bins[k][1] * bins[k + 1][2]
             + (bins[k + 1][1] * bins[k][2] - bins[k][1] * bins[k + 1][2]),
           2 * bins[k][2] * bins[k + 1][2])]

\* np.digitize(x, bins) on rational edges
DigitizeEdges(x, bins) == Cardinality({k \in 1..Len(bins) : RatLe(bins[k], x)})

\* np.min and np.max of a feature
MinOf(f) == CHOOSE m \in {f[t] : t \in DOMAIN f} : \A t \in DOMAIN f : m <= f[t]
MaxOf(f) == CHOOSE m \in {f[t] : t \in DOMAIN f} : \A t \in DOMAIN f : f[t] <= m

\* the bin (0-based) np.histogram counts x in: every bin is half open but
\* the last, which is closed on the right; -1 when x is outside the edges
HistogramBin(x, bins) ==
    IF RatLt(x, bins[1]) \/ RatLt(bins[Len(bins)], x) THEN -1
    ELSE IF x = bins[Len(bins)] THEN Len(bins) - 2
    ELSE DigitizeEdges(x, bins) - 1

\* np.histogram(values, bins)[0]: the number of values in each bin
Histogram(f, bins) ==
    [k \in 0..(Len(bins) - 2) |->
       Cardinality({t \in DOMAIN f : HistogramBin(Rat(f[t], 1), bins) = k})]

\* Tsd.restrict(ep): the samples with ep.start <= t <= ep.end
Restrict(f, ep) ==
    [t \in {u \in DOMAIN f : ep.start <= u /\ u <= ep.end} |-> f[t]]

\* Ts.restrict(ep) of a set of timestamps
RestrictTimes(T, ep) == {u \in T : ep.start <= u /\ u <= ep.end}

\* feature.time_support of a feature built without one: from its first
\* timestamp to its last
TimeSupport(f) ==
    [start |-> CHOOSE m \in DOMAIN f : \A t \in DOMAIN f : m <= t,
     end |-> CHOOSE m \in DOMAIN f : \A t \in DOMAIN f : t <= m]

\* the time support of feature.restrict(ep): what ep and the support share
Intersect(s, ep) ==
    [start |-> IF s.start <= ep.start THEN ep.start ELSE s.start,
     end |-> IF ep.end <= s.end THEN ep.end ELSE s.end]

\* the feature timestamp closest to t, the earlier one of two equally close
Closest(t, f) ==
    CHOOSE u \in DOMAIN f :
        \A w \in DOMAIN f :
            \/ Abs(u - t) < Abs(w - t)
            \/ Abs(u - t) = Abs(w - t) /\ u <= w

\* ts.value_from(feature, ep): for every timestamp of ts within ep, the
\* feature value closest in time
ValueFrom(T, f, ep) == [t \in RestrictTimes(T, ep) |-> f[Closest(t, f)]]

\* feature.rate: samples per time unit of the time support
Rate(f) == Rat(Cardinality(DOMAIN f), TimeSupport(f).end - TimeSupport(f).start)

\* count / occupancy (line 127), NaN replaced by 0.0 (line 128), times
\* feature.rate (line 130); a count over no occupancy is +inf
RateEntry(c, occ, rate) ==
    IF occ = 0
    THEN IF c = 0 THEN Fin(Zero) ELSE Inf
    ELSE Fin(Rat(c * rate[1], occ * rate[2]))

\* lines 110-113 and 399-402
MakeBins(f, minmax, nb_bins) ==
    IF minmax.isNone
    THEN Linspace(MinOf(f), MaxOf(f), nb_bins + 1)
    ELSE Linspace(minmax.lo, minmax.hi, nb_bins + 1)

\* lines 390-397
TCC_Start ==
    /\ tcc.pc = "start"
    /\ tcc' = IF ~tcc.tsdframe.isTsd
              THEN [tcc EXCEPT !.pc = "raised", !.err = "RuntimeError"]
              ELSE IF tcc.ep.isIntervalSet
              THEN [tcc EXCEPT
                      !.pc = "bins",
                      !.feature = Restrict(tcc.feature, tcc.ep),
                      !.time_support = Intersect(tcc.time_support, tcc.ep),
                      !.tsdframe.d = Restrict(tcc.tsdframe.d, tcc.ep)]
              ELSE [tcc EXCEPT
                      !.pc = "bins",
                      !.tsdframe.d =
                          Restrict(tcc.tsdframe.d, tcc.time_support)]
    /\ UNCHANGED <<irlsVars, glmVars, dtc, tc1>>

\* lines 399-402
TCC_Bins ==
    /\ tcc.pc = "bins"
    /\ tcc' = [tcc EXCEPT
                 !.pc = "digitize",
                 !.bins = MakeBins(tcc.feature, tcc.minmax, tcc.nb_bins)]
    /\ UNCHANGED <<irlsVars, glmVars, dtc, tc1>>

\* lines 404-405
TCC_Digitize ==
    /\ tcc.pc = "digitize"
    /\ LET align_times ==
               ValueFrom(DOMAIN tcc.tsdframe.d, tcc.feature, tcc.time_support)
       IN  tcc' = [tcc EXCEPT
                     !.pc = "groupby",
                     !.align_times = align_times,
                     !.idx = [t \in DOMAIN align_times |->
                                DigitizeEdges(Rat(align_times[t], 1), tcc.bins) - 1]]
    /\ UNCHANGED <<irlsVars, glmVars, dtc, tc1>>

\* lines 406-412: the mean of every group of samples, kept for the labels
\* 0..len(bins)-2 only, 0 where no group has the label; groupby refuses
\* labels that are not one per sample
TCC_GroupMean ==
    /\ tcc.pc = "groupby"
    /\ LET members(k) == {t \in DOMAIN tcc.idx : tcc.idx[t] = k}
       IN  tcc' =
             IF DOMAIN tcc.idx # DOMAIN tcc.tsdframe.d
             THEN [tcc EXCEPT !.pc = "raised", !.err = "GrouperError"]
             ELSE [tcc EXCEPT
                     !.pc = "returned",
                     !.index = BinCentres(tcc.bins),
                     !.tmp = [k \in 0..(Len(tcc.bins) - 2) |->
                                IF members(k) = {} THEN Zero
                                ELSE Rat(SumOver(tcc.tsdframe.d, members(k)),
                                         Cardinality(members(k)))]]
    /\ UNCHANGED <<irlsVars, glmVars, dtc, tc1>>

\* lines 107-116
TC1_Start ==
    /\ tc1.pc = "start"
    /\ tc1' = IF ~tc1.group.isTsGroup
              THEN [tc1 EXCEPT !.pc = "raised", !.err = "RuntimeError"]
              ELSE LET bins == MakeBins(tc1.feature, tc1.minmax, tc1.nb_bins)
                   IN  [tc1 EXCEPT !.pc = "occupancy", !.bins = bins,
                                   !.idx = BinCentres(bins)]
    /\ UNCHANGED <<irlsVars, glmVars, dtc, tcc>>

\* lines 118-123
TC1_Occupancy ==
    /\ tc1.pc = "occupancy"
    /\ tc1' =
         IF tc1.ep.isIntervalSet
         THEN [tc1 EXCEPT
                 !.pc = "loop",
                 !.group_value =
                     [q \in 1..Len(tc1.group.ts) |->
                        ValueFrom(tc1.group.ts[q], tc1.feature, tc1.ep)],
                 !.occupancy = Histogram(Restrict(tc1.feature, tc1.ep), tc1.bins)]
         ELSE [tc1 EXCEPT
                 !.pc = "loop",
                 !.group_value =
                     [q \in 1..Len(tc1.group.ts) |->
                        ValueFrom(tc1.group.ts[q], tc1.feature,
                                  TimeSupport(tc1.feature))],
                 !.occupancy = Histogram(tc1.feature, tc1.bins)]
    /\ UNCHANGED <<irlsVars, glmVars, dtc, tcc>>

\* one pass of the loop of lines 125-130, for the next unit
TC1_Unit ==
    /\ tc1.pc = "loop"
    /\ Len(tc1.tuning_curves) < Len(tc1.group_value)
    /\ LET q == Len(tc1.tuning_curves) + 1
           counts == Histogram(tc1.group_value[q], tc1.bins)
       IN  tc1' = [tc1 EXCEPT
                     !.tuning_curves =
                         Append(tc1.tuning_curves,
                                [k \in DOMAIN counts |->
                                   RateEntry(counts[k], tc1.occupancy[k],
                                             Rate(tc1.feature))])]
    /\ UNCHANGED <<irlsVars, glmVars, dtc, tcc>>

\* line 132
TC1_Return ==
    /\ tc1.pc = "loop"
    /\ Len(tc1.tuning_curves) = Len(tc1.group_value)
    /\ tc1' = [tc1 EXCEPT !.pc = "returned"]
    /\ UNCHANGED <<irlsVars, glmVars, dtc, tcc>>

\* features with at least two timestamps of 0..2 and values of 0..2
TcFeatures ==
    UNION {[T -> {0, 1, 2}] : T \in {{0, 1}, {0, 2}, {1, 2}, {0, 1, 2}}}

\* a Tsd sampled at some timestamps, where the sample at t is t + 1, and an
\* object that is neither a Tsd nor a TsdFrame
TcFrames ==
    {[isTsd |-> TRUE, d |-> [t \in T |-> t + 1]] :
        T \in {{0}, {1, 2}, {0, 1, 2}}}
    \cup {[isTsd |-> FALSE, d |-> << >>]}

TcGroups ==
    {[isTsGroup |-> TRUE, ts |-> <<{0, 2}, {1}>>],
     [isTsGroup |-> FALSE, ts |-> <<>>]}

TcEpochs ==
    {[isIntervalSet |-> FALSE, start |-> 0, end |-> 0],
     [isIntervalSet |-> TRUE, start |-> 0, end |-> 1]}

TcMinmax ==
    {[isNone |-> TRUE, lo |-> 0, hi |-> 0],
     [isNone |-> FALSE, lo |-> 0, hi |-> 2],
     [isNone |-> FALSE, lo |-> 0, hi |-> 1]}

TcNbBins == {1, 2}

\* both functions are called with the same feature, nb_bins, ep and minmax
InitTC ==
    /\ \E f \in TcFeatures, d \in TcFrames, g \in TcGroups, e \in TcEpochs,
          mm \in TcMinmax, nb \in TcNbBins :
         /\ tcc = [pc |-> "start", tsdframe |-> d, feature |-> f,
                   time_support |-> TimeSupport(f),
                   nb_bins |-> nb, ep |-> e, minmax |-> mm, bins |-> <<>>,
                   align_times |-> << >>, idx |-> << >>, index |-> <<>>,
                   tmp |-> << >>, err |-> ""]
         /\ tc1 = [pc |-> "start", group |-> g, feature |-> f,
                   nb_bins |-> nb, ep |-> e, minmax |-> mm, bins |-> <<>>,
                   idx |-> <<>>, group_value |-> <<>>, occupancy |-> << >>,
                   tuning_curves |-> <<>>, err |-> ""]
    /\ irls = Idle
    /\ fpInv = << >>
    /\ fpIter = << >>
    /\ tolHist = <<>>
    /\ GlmIdle
    /\ dtc = DtcIdle

NextTC ==
    \/ TCC_Start \/ TCC_Bins \/ TCC_Digitize \/ TCC_GroupMean
    \/ TC1_Start \/ TC1_Occupancy \/ TC1_Unit \/ TC1_Return

SpecTC == InitTC /\ [][NextTC]_vars

----------------------------------------------------------------------------
(***************************************************************************)
(* Properties of PoissonIRLS.                                              *)
(***************************************************************************)
\* the estimate after k updates from the least-squares start, every solve
\* with uniform weights and every Z computed from the estimate before it
RECURSIVE RefEstimate(_, _, _)
RefEstimate(k, M, y) ==
    IF k = 0
    THEN [op |-> "wls", X |-> M, W |-> [i \in 1..Len(M) |-> 1], y |-> y,
          from |-> <<>>]
    ELSE [op |-> "step", X |-> M, W |-> [i \in 1..Len(M) |-> 1], y |-> y,
          from |-> <<RefEstimate(k - 1, M, y)>>]

\* tol is a finite number strictly below tolerance
Below(t, tolerance) == t.kind = "fin" /\ t.v < tolerance.v

InversionFailed ==
    \/ \E k \in DOMAIN fpInv : fpInv[k]
    \/ \E B \in DOMAIN fpIter : fpIter[B] = Singular

\* C1: a call with niter >= 1 returns the estimate after exactly k updates,
\* k being the first iteration whose tol is strictly below tolerance, or
\* niter if there is none; a NaN or infinite tol is no convergence and no
\* error: the call raises only when an inversion failed
C1_StoppingRule ==
    /\ (irls.pc = "returned" /\ irls.niter >= 1) =>
         LET k == Len(tolHist)
         IN  /\ k \in 1..irls.niter
             /\ irls.ret = RefEstimate(k, irls.X, irls.y)
             /\ NumUpdates(irls.ret) = k
             /\ \A j \in 1..(k - 1) : ~Below(tolHist[j], irls.tolerance)
             /\ Below(tolHist[k], irls.tolerance) \/ k = irls.niter
    /\ irls.pc = "raised" => InversionFailed /\ irls.err = "LinAlgError"
    /\ irls.pc = "loop" =>
         \A j \in 1..Len(tolHist) : ~Below(tolHist[j], irls.tolerance)

\* C1 witness: a NaN tol in the first pass did not stop the loop, and the second pass
\* converged before niter was exhausted
C1_Witness ==
    /\ irls.pc = "returned"
    /\ irls.niter = 3
    /\ tolHist = <<NaN, Fin(0)>>
    /\ irls.tolerance = Fin(1)

\* C6 as claimed: with niter = 0 or niter = 1 the call returns the estimate
\* after exactly one update, never the least-squares start
C6_OneUpdateAtZeroOrOne ==
    (irls.pc = "returned" /\ irls.niter \in {0, 1}) =>
        /\ NumUpdates(irls.ret) = 1
        /\ irls.ret # RefEstimate(0, irls.X, irls.y)

\* C6 amended: with niter = 1 the call returns the estimate after exactly
\* one update; with niter = 0 the loop body never runs and the call returns
\* the least-squares start
C6_OneUpdateAtOne ==
    /\ (irls.pc = "returned" /\ irls.niter = 1) =>
          /\ irls.ret = RefEstimate(1, irls.X, irls.y)
          /\ Len(tolHist) = 1
    /\ (irls.pc = "returned" /\ irls.niter = 0) =>
          /\ irls.ret = RefEstimate(0, irls.X, irls.y)
          /\ tolHist = <<>>

\* C6 witness: a call with niter = 0 returned the least-squares start
C6_Witness ==
    /\ irls.pc = "returned"
    /\ irls.niter = 0
    /\ irls.ret.op = "wls"

RECURSIVE UniformWeights(_)
UniformWeights(B) ==
    /\ \A i \in DOMAIN B.W : B.W[i] = 1
    /\ B.from # <<>> => UniformWeights(B.from[1])

\* C10: W is all ones after initialisation and in every pass of the loop,
\* and every update is the solve with those weights and with Z computed
\* from the estimate the pass started with
C10_WeightsStayOnes ==
    /\ irls.pc \in {"loop", "returned", "raised"} =>
          /\ Len(irls.W) = Rows(irls.X)
          /\ \A i \in DOMAIN irls.W : irls.W[i] = 1
    /\ irls.pc = "loop" =>
          /\ UniformWeights(irls.B)
          /\ irls.it > 0 =>
               /\ irls.B.from = irls.B_
               /\ irls.B = [op |-> "step", X |-> irls.X, W |-> irls.W,
                            y |-> irls.y, from |-> irls.B_]
    /\ irls.pc = "returned" =>
          /\ UniformWeights(irls.ret)
          /\ (irls.ret.op = "step" /\ Len(tolHist) = irls.it /\ irls.it > 0) =>
               irls.ret.W = irls.W

\* C10 witness: two passes of the loop are done and a third is due
C10_Witness ==
    /\ irls.pc = "loop"
    /\ irls.it = 2
    /\ irls.niter = 3

----------------------------------------------------------------------------
(***************************************************************************)
(* Properties of compute_1d_poisson_glm.                                   *)
(***************************************************************************)
\* X has been built and the Tsd of the downsampled feature exists
Built == pc \in {"fit", "fitting", "returned"}

\* element i (1-based) of the feature with zeros before it, read without
\* building the padded array
PaddedAt(f, lags, i) == IF i > lags - 1 THEN f[i - (lags - 1)] ELSE <<0, 1>>

\* C2: with n >= nt >= 2, column 0 of X is all ones and X[i, 1 + j] is
\* f_padded[i + j], f_padded being f after nt - 1 zeros; an all-zero f
\* gives all-zero columns after the first
C2_DesignMatrixContent ==
    (Built /\ Len(dfeat.d) >= nt /\ nt >= 2) =>
        LET f == dfeat.d
            n == Len(f)
        IN  /\ Len(X) = n
            /\ \A i \in 1..n :
                 /\ Len(X[i]) = nt + 1
                 /\ X[i][1] = <<1, 1>>
                 /\ \A j \in 0..(nt - 1) :
                      /\ X[i][2 + j] = PaddedAt(f, nt, i + j)
                      /\ (\A q \in 1..n : f[q] = <<0, 1>>) => X[i][2 + j] = <<0, 1>>

\* C2 witness: three bins with three different averages and two lags
C2_Witness ==
    /\ pc = "fit"
    /\ nt = 2
    /\ dfeat.d = <<<<1, 1>>, <<2, 1>>, <<3, 1>>>>
    /\ X = << <<<<1, 1>>, <<0, 1>>, <<1, 1>>>>,
              <<<<1, 1>>, <<1, 1>>, <<2, 1>>>>,
              <<<<1, 1>>, <<2, 1>>, <<3, 1>>>> >>

\* C3 as claimed: for every window size >= bin size > 0 and every feature
\* vector of length n >= 1, n < nt included, X has exactly n rows and
\* nt + 1 columns, nt = floor(|w| / b) + 1
C3_DesignMatrixShape ==
    Built =>
        /\ nt = (args.windowsize \div args.binsize) + 1
        /\ Len(X) = Len(dfeat.d)
        /\ \A i \in 1..Len(X) : Len(X[i]) = nt + 1

\* C4 as claimed: after the pass for an epoch, the downsampled feature has
\* exactly one value per bin centre of that epoch, whether or not a bin is
\* empty or a sample lies outside the grid; hence X has one row per bin and
\* per element of each unit's count vector
C4_OneValuePerBin ==
    /\ pc = "downsample" =>
         \A i \in 1..Len(tidx) :
            /\ Len(tidx[i]) = NumBins(args.ep[i], args.binsize)
            /\ Len(dfeat[i]) = Len(tidx[i])
    /\ Built =>
         /\ Len(X) = TotalBins(args.ep, args.binsize)
         /\ \A n \in DOMAIN count : Len(count[n]) = Len(X)

\* C5: a failed inversion gives no coefficient vector and ends the whole
\* call with the error: nothing is returned, also not for the units fitted
\* before the failing one
C5_SingularPropagates ==
    /\ irls.pc = "raised" =>
         /\ irls.err = "LinAlgError"
         /\ "ret" \notin DOMAIN irls
         /\ "B" \notin DOMAIN irls
    /\ InversionFailed =>
         /\ \/ pc = "fitting" /\ irls.pc = "raised"
            \/ pc = "raised" /\ err = "LinAlgError" /\ irls = Idle
         /\ result = <<>>
    /\ (pc = "raised" /\ err = "LinAlgError") =>
         /\ InversionFailed
         /\ result = <<>>
         /\ regressors = <<>>

\* C5 witness: the second of two units failed in the loop after the first was fitted
C5_Witness ==
    /\ pc = "raised"
    /\ err = "LinAlgError"
    /\ Len(Keys) = 2
    /\ count[Keys[1]] # count[Keys[2]]
    /\ \E B \in DOMAIN fpIter :
         /\ fpIter[B] = Singular
         /\ B.y = count[Keys[2]]
         /\ B.from # <<>> /\ B.from[1].op = "step"
    /\ \E B \in DOMAIN fpIter : fpIter[B] # Singular /\ B.y = count[Keys[1]]

\* C7: the offset of a unit is coefficient 0 of its fit, row k of the
\* regressors is coefficient 1 + k, labelled (k - (nt - 1)) * binsize, and
\* multiplies the feature value nt - 1 - k bins before the current bin
C7_LagLabelling ==
    pc = "returned" =>
        LET R == result.regressors
            f == dfeat.d
        IN  /\ Len(R.t) = nt
            /\ Len(R.d) = nt
            /\ R.t[1] = -(nt - 1) * args.binsize
            /\ R.t[nt] = 0
            /\ \A p \in 1..Len(Keys) :
                 /\ result.offset.data[p] = [coef |-> 0, of |-> regressors[p]]
                 /\ \A k \in 0..(nt - 1) :
                      /\ R.d[k + 1][p] = [coef |-> 1 + k, of |-> regressors[p]]
                      /\ R.t[k + 1] = (k - (nt - 1)) * args.binsize
                      /\ \A i \in 1..Len(f) :
                           LET term == result.prediction.d[i][p]
                               lag == nt - 1 - k
                           IN  /\ term.w[k + 1] = R.d[k + 1][p]
                               /\ term.x[k + 1] =
                                    IF i - lag >= 1 THEN f[i - lag] ELSE <<0, 1>>
                               /\ term.x[k + 1] = regressors[p].X[i][2 + k]

\* C7 witness: two units fitted with three lags on three bins
C7_Witness ==
    /\ pc = "returned"
    /\ nt = 3
    /\ Len(Keys) = 2
    /\ dfeat.d = <<<<1, 1>>, <<2, 1>>, <<3, 1>>>>
    /\ result.regressors.t = <<-2, -1, 0>>

\* what the solver returns for the matrix M and the target y, read off the
\* remembered outcomes of its iterations
RECURSIVE RefSolve(_, _, _)
RefSolve(B, left, tolerance) ==
    IF left = 0 THEN B
    ELSE LET Bn == [op |-> "step", X |-> B.X, W |-> B.W, y |-> B.y,
                    from |-> <<B>>]
         IN  IF Bn \notin DOMAIN fpIter THEN <<>>
             ELSE IF Below(fpIter[Bn], tolerance) THEN Bn
             ELSE RefSolve(Bn, left - 1, tolerance)

\* C9: what is reported for unit n is the solver's output on the design
\* matrix and count[n] alone, whichever place n has in the fitting order
\* and whatever the other units' counts are
C9_PerUnitIndependence ==
    pc = "returned" =>
        LET M == DesignMatrix(dfeat.d, LagCount(args.windowsize, args.binsize))
        IN  /\ X = M
            /\ \A n \in DOMAIN count :
                 LET b == RefSolve(RefEstimate(0, M, count[n]), args.niter,
                                   args.tolerance)
                     p == PosOf(n, result.regressors.columns)
                     q == PosOf(n, result.offset.index)
                 IN  /\ result.offset.data[q] = [coef |-> 0, of |-> b]
                     /\ \A k \in 1..Len(result.regressors.d) :
                          result.regressors.d[k][p] = [coef |-> k, of |-> b]
                     /\ \A i \in 1..Len(M) :
                          /\ result.prediction.d[i][p].x = Tail(M[i])
                          /\ result.prediction.d[i][p].offset.of = b

\* C9 witness: unit 2 is fitted before unit 1, their counts differ and the loop ran
C9_Witness ==
    /\ pc = "returned"
    /\ Keys = <<2, 1>>
    /\ count[1] # count[2]
    /\ args.niter = 2
    /\ NumUpdates(regressors[1]) = 2
    /\ NumUpdates(regressors[2]) = 1

----------------------------------------------------------------------------
(***************************************************************************)
(* Properties of compute_discrete_tuning_curves.                           *)
(***************************************************************************)
\* C8 as claimed: when group is no TsGroup or some value of dict_ep is no
\* IntervalSet, the call raises RuntimeError before any unit's events are
\* restricted or counted for any key, wherever the offending key stands
C8_NoPartialComputation ==
    LET invalid ==
          \/ ~dtc.group.isTsGroup
          \/ \E p \in 1..Len(dtc.dict_ep) : ~dtc.dict_ep[p].value.isIntervalSet
    IN  (dtc.pc # "idle" /\ invalid) =>
            /\ dtc.restricted = <<>>
            /\ dtc.pc # "returned"
            /\ dtc.pc = "raised" => dtc.err = "RuntimeError"

----------------------------------------------------------------------------
(***************************************************************************)
(* Properties of compute_1d_tuning_curves_continous.                       *)
(***************************************************************************)
\* the aligned feature value v lies within the edges: bins[0] <= v <=
\* bins[nb_bins]
WithinEdges(v, bins) ==
    RatLe(bins[1], Rat(v, 1)) /\ RatLe(Rat(v, 1), bins[Len(bins)])

\* the mean of the samples whose aligned feature value the histogram of
\* compute_1d_tuning_curves counts in bin k
HistogramBinMean(k) ==
    LET members ==
          {t \in DOMAIN tcc.align_times :
              HistogramBin(Rat(tcc.align_times[t], 1), tcc.bins) = k}
    IN  IF members = {} THEN Zero
        ELSE Rat(SumOver(tcc.tsdframe.d, members), Cardinality(members))

\* C11 as claimed: when compute_1d_tuning_curves_continous has returned,
\* every sample whose aligned feature value lies within the edges has the
\* label of exactly one of the nb_bins output bins, that label is the bin of
\* the histogram of compute_1d_tuning_curves (last bin closed on the right),
\* and the returned mean of that bin is the mean over all samples the
\* histogram counts in it, so that no such sample is left out
C11_InRangeSampleBinned ==
    tcc.pc = "returned" =>
        \A t \in DOMAIN tcc.align_times :
            WithinEdges(tcc.align_times[t], tcc.bins) =>
                /\ tcc.idx[t] \in 0..(tcc.nb_bins - 1)
                /\ tcc.idx[t] =
                       HistogramBin(Rat(tcc.align_times[t], 1), tcc.bins)
                /\ tcc.tmp[tcc.idx[t]] = HistogramBinMean(tcc.idx[t])

\* the two binnings agree on every sample below the last edge
C11_BelowLastEdgeAgree ==
    tcc.pc = "returned" =>
        \A t \in DOMAIN tcc.align_times :
            (/\ RatLe(tcc.bins[1], Rat(tcc.align_times[t], 1))
             /\ RatLt(Rat(tcc.align_times[t], 1), tcc.bins[Len(tcc.bins)])) =>
                tcc.idx[t] = HistogramBin(Rat(tcc.align_times[t], 1), tcc.bins)

\* a returned call with minmax None where a sample is aligned with the
\* feature maximum
C11_SampleAtMaximum ==
    /\ tcc.pc = "returned"
    /\ tcc.minmax.isNone
    /\ \E t \in DOMAIN tcc.align_times :
           tcc.align_times[t] = MaxOf(tcc.feature)


=============================================================================
